---- MODULE Spec2Model ----
(***************************************************************************)
(* The identity and tenant-metadata service of cmd/worker/main.go: the     *)
(* key-value store, the OTP state machine, client provisioning, session    *)
(* tokens and the infrastructure manifest.  Every request handler runs in  *)
(* its own worker; a worker's step is one store operation together with    *)
(* the local computation that precedes it, so that the interleavings of    *)
(* concurrent handlers are the interleavings of their store operations.    *)
(* Time is the wall clock in whole seconds (the granularity of Unix() and  *)
(* of a token's NumericDate).                                              *)
(***************************************************************************)
EXTENDS Integers, Sequences, FiniteSets, TLC

(* ------------------------------ bounds -------------------------------- *)

\* Number of requests that may arrive in one behaviour: when callers send
\* requests concurrently, and when each caller waits for the answer before
\* the next request is sent.
MaxRequests == 4

MaxSeqRequests == 5

\* and when the behaviour starts with the startup of the process.
MaxStartRequests == 4

\* Requests that arrive when the startup is followed under fairness.
MaxLiveRequests == 3

\* Requests that arrive from the callers of two emails.
MaxIsoRequests == 5

\* Number of client identifiers uuid.New() may hand out in one behaviour.
MaxClients == 2

\* Worker slots: requests that may be in flight at once.
Workers == {1, 2}

Emails == {"a@x.com"}

\* Values rand.Read may put in the three bytes of generateOTP: the least
\* number (padded with zeros) and the greatest (eight digits, cut to six).
RandomBytes == {<<0, 0, 0>>, <<255, 255, 255>>}

\* Number of store operations of the durable backend that may fail in one
\* behaviour.
MaxFaults == 1

\* Number of calls made on a store by itself.
MaxOps == 3

(* --------------------------- program constants ------------------------ *)

\* 5 * time.Minute, in seconds.
OTPWindow == 300

\* 24 * time.Hour, in seconds.
TokenLifetime == 86400

\* VPNPort of a new environment.
DefaultPort == 443

\* Connection attempts of main before it falls back.
MaxAttempts == 20

\* The zero time.Time: the value of a timestamp a request body leaves out.
ZeroTime == 0 - 1



secret == "your-secret-key-change-in-production"

(* ------------------------------ the store ----------------------------- *)

\* Keys: fmt.Sprintf("otp:%s", email) and the like, as <<prefix, name>>.
\* A by-email key that is the same for every email.
clientKeyOf_shared(email) == <<"client", "shared">>

otpKeyOf(email) == <<"otp", email>>
clientKeyOf(email) == <<"client", email>>
idKeyOf(clientID) == <<"client_id", clientID>>
envKeyOf(environmentID) == <<"environment", environmentID>>

\* InMemoryStorage: a map; a store value `s` is the function data.
Has(s, key) == key \in DOMAIN s

\* Get returns <<bytes>>, or <<>> for the "key not found" error.
Get(s, key) == IF key \in DOMAIN s THEN <<s[key]>> ELSE <<>>

\* A put that drops every other key.
Put_only(s, key, value) == [k \in {key} |-> value]

Put(s, key, value) == [k \in DOMAIN s \cup {key} |-> IF k = key THEN value ELSE s[k]]

\* A delete that leaves the key in place.
Delete_keeps(s, key) == s

Delete(s, key) == [k \in DOMAIN s \ {key} |-> s[k]]

(* ------------------------- records and encoding ----------------------- *)

\* An environment that starts in another status.
NewEnvironment_pending(environmentID, clientID, t) ==
    [ID |-> environmentID, ClientID |-> clientID, VPNServer |-> <<"vpn", clientID>>,
     VPNPort |-> DefaultPort, Created |-> t, Status |-> "pending",
     Instances |-> {}, Databases |-> {}, Storage |-> {}]

\* Environment of a new client: fields of the Go struct.
NewEnvironment(environmentID, clientID, t) ==
    [ID |-> environmentID, ClientID |-> clientID, VPNServer |-> <<"vpn", clientID>>,
     VPNPort |-> DefaultPort, Created |-> t, Status |-> "active",
     Instances |-> {}, Databases |-> {}, Storage |-> {}]

\* Infrastructure of a new client.
NewInfrastructure(t) ==
    [VPNInstances |-> {}, LoadBalancers |-> {}, Databases |-> {}, Storage |-> {},
     Created |-> t, LastUpdated |-> t]

\* ClientData of a new client.
NewClientData(clientID, environmentID, email, t) ==
    [ID |-> clientID, Email |-> email, Created |-> t, LastSeen |-> t,
     Environment |-> NewEnvironment(environmentID, clientID, t),
     Infrastructure |-> NewInfrastructure(t)]

\* json.Marshal / json.Unmarshal: struct fields to and from their json tags.
MarshalEnvironment(e) ==
    [id |-> e.ID, client_id |-> e.ClientID, vpn_server |-> e.VPNServer,
     vpn_port |-> e.VPNPort, created |-> e.Created, status |-> e.Status,
     instances |-> e.Instances, databases |-> e.Databases, storage |-> e.Storage]

UnmarshalEnvironment(j) ==
    [ID |-> j.id, ClientID |-> j.client_id, VPNServer |-> j.vpn_server,
     VPNPort |-> j.vpn_port, Created |-> j.created, Status |-> j.status,
     Instances |-> j.instances, Databases |-> j.databases, Storage |-> j.storage]

MarshalInfrastructure(i) ==
    [vpn_instances |-> i.VPNInstances, load_balancers |-> i.LoadBalancers,
     databases |-> i.Databases, storage |-> i.Storage,
     created |-> i.Created, last_updated |-> i.LastUpdated]

UnmarshalInfrastructure(j) ==
    [VPNInstances |-> j.vpn_instances, LoadBalancers |-> j.load_balancers,
     Databases |-> j.databases, Storage |-> j.storage,
     Created |-> j.created, LastUpdated |-> j.last_updated]

MarshalClientData(c) ==
    [id |-> c.ID, email |-> c.Email, created |-> c.Created, last_seen |-> c.LastSeen,
     environment |-> MarshalEnvironment(c.Environment),
     infrastructure |-> MarshalInfrastructure(c.Infrastructure)]

UnmarshalClientData(j) ==
    [ID |-> j.id, Email |-> j.email, Created |-> j.created, LastSeen |-> j.last_seen,
     Environment |-> UnmarshalEnvironment(j.environment),
     Infrastructure |-> UnmarshalInfrastructure(j.infrastructure)]

(* ------------------------------- tokens -------------------------------- *)

\* A bearer string: a signed token (its claims and the key that signed it),
\* or a string that does not parse as one.
generateToken(clientID, t) ==
    [wellformed |-> TRUE, sub |-> clientID, iat |-> t, exp |-> t + TokenLifetime,
     key |-> secret]

\* "invalid-token": no JWT structure.
MalformedToken ==
    [wellformed |-> FALSE, sub |-> 0, iat |-> 0, exp |-> 0, key |-> ""]

\* A well-formed token signed with a key that is not the process's secret.
ForgedToken(clientID, t) ==
    [generateToken(clientID, t) EXCEPT !.key = "another-key"]

\* A validator that does not check which key signed the token.
TokenValid_anykey(tokenString, t) ==
    /\ tokenString.wellformed
    /\ t < tokenString.exp

\* A validator that still accepts a token in the second its exp names.
TokenValid_inclusive(tokenString, t) ==
    /\ tokenString.wellformed
    /\ tokenString.key = secret
    /\ t <= tokenString.exp

\* jwt.ParseWithClaims with the default validator: structure, signature,
\* then exp, which must lie after the present instant.
TokenValid(tokenString, t) ==
    /\ tokenString.wellformed
    /\ tokenString.key = secret
    /\ t < tokenString.exp

\* validateToken returns <<subject>>, or <<>> for an error.
validateToken(tokenString, t) ==
    IF TokenValid(tokenString, t) THEN <<tokenString.sub>> ELSE <<>>

\* An identifier this process never assigned (a uuid made outside
\* getOrCreateClientWithInfrastructure, as TestJWTToken does).
UnknownClientID == 0

(* -------------------------------- state -------------------------------- *)

VARIABLES
    storage,    \* the store: a map from keys to stored values
    now,        \* the wall clock, in seconds
    nextID,     \* how many client identifiers uuid.New() has handed out
    workers,    \* per worker slot: the request it is handling and its locals
    last,       \* <<response>> when the step just taken answered a request
    issued,     \* every 200 answer of /verify so far: email, code, ids, token
    nreq,       \* requests that have arrived
    sequential, \* callers send a request only when none is in flight
    callers,    \* the emails the callers of /register and /verify use
    budget,     \* how many requests arrive in the behaviour
    sent,       \* the codes sendOTPEmail was called with, the latest per email marked
    backend,    \* what the variable `storage` of main.go holds: "nil", "redis", "memory"
    main,       \* the locals of main: where it is, its loop counter, its err
    nfault,     \* store operations that have failed
    oplog,      \* the calls made on a store by itself, in order
    otpHistory, \* per email: how many codes were stored for it, and how many
                \* verifies failed on a wrong candidate since the last of them
    mu          \* the RWMutex of InMemoryStorage: its writer and its readers

vars ==
    <<storage, now, nextID, workers, last, issued, nreq, sequential, callers, budget, sent,
      otpHistory, backend, main, nfault, oplog, mu>>

\* A worker with no request.  start: when the request arrived; seen: what
\* handleVerify read under otp:<email> on arrival; created: the request
\* generated a client identifier; err: a store operation of the request
\* returned an error other than "key not found"; serial: which of the codes
\* stored for the email handleVerify read; key, value: the arguments of a call
\* made on the store by itself; method, path: the request line of a request
\* answered by handleRequest itself.
Idle ==
    [op |-> "idle", pc |-> "idle", email |-> "", otp |-> <<>>, tok |-> <<>>,
     cid |-> 0, data |-> <<>>, upd |-> <<>>, seen |-> <<>>, start |-> 0,
     created |-> FALSE, err |-> FALSE, serial |-> 0, key |-> <<>>, value |-> "",
     method |-> "", path |-> ""]

InFlight(w) == workers[w].op # "idle"

\* The RWMutex with no holder: writer is the worker holding Lock (0: none),
\* readers the workers holding RLock.
Unlocked == [writer |-> 0, readers |-> {}]

\* The history of the codes of an email: none stored yet.
HistoryOf(email) ==
    IF email \in DOMAIN otpHistory THEN otpHistory[email]
    ELSE [serial |-> 0, failed |-> 0]

\* The history with the entry of email replaced.
WithHistory(email, entry) ==
    [e \in DOMAIN otpHistory \cup {email} |-> IF e = email THEN entry ELSE otpHistory[e]]

\* A step that stores a new code for the email, and one that fails a verify
\* on a wrong candidate.
CodeStored(email) ==
    otpHistory' = WithHistory(email, [serial |-> HistoryOf(email).serial + 1, failed |-> 0])

CandidateFailed(email) ==
    otpHistory' = WithHistory(email, [HistoryOf(email) EXCEPT !.failed = @ + 1])

AnyInFlight == \E w \in Workers : InFlight(w)

\* The slot a new request runs in: the lowest free one.
FreeSlot(w) == ~InFlight(w) /\ \A v \in Workers : v < w => InFlight(v)

\* main has reached http.ListenAndServe.  Its locals are dead from then on
\* and are kept at this value.
Serving == [pc |-> "serve", i |-> 0, err |-> FALSE, ok |-> 0]

\* Callers of one email that send one request at a time to a server on the
\* in-memory store also send malformed requests, tokens /verify did not
\* issue, and requests in the second a token names as its exp.
Thorough == sequential /\ backend = "memory" /\ callers = Emails

\* A request arrives: the server is serving, the budget of the behaviour is
\* not used up and, for callers that wait for each answer, no request is in
\* flight.
Arrive ==
    /\ main = Serving
    /\ nreq < budget
    /\ sequential => ~AnyInFlight
    /\ nreq' = nreq + 1
    /\ UNCHANGED <<sequential, callers, budget, backend, main, oplog, mu>>

\* The locals of a request that starts now.
Fresh(op) == [Idle EXCEPT !.op = op, !.start = now]

\* http.Error / WriteHeader + Encode: the answer to the request with locals `req`.
Response(req, code, msg, out) ==
    <<[op |-> req.op, code |-> code, msg |-> msg, req |-> req, out |-> out]>>

NoBody == [none |-> TRUE]

\* The server on the in-memory store, serving, with concurrent callers.
Init ==
    /\ storage = << >>
    /\ now = 0
    /\ nextID = 0
    /\ workers = [w \in Workers |-> Idle]
    /\ last = <<>>
    /\ issued = {}
    /\ nreq = 0
    /\ sequential = FALSE
    /\ callers = Emails
    /\ budget = MaxRequests
    /\ sent = {}
    /\ backend = "memory"
    /\ main = Serving
    /\ nfault = 0
    /\ oplog = <<>>
    /\ otpHistory = << >>
    /\ mu = Unlocked

\* The instants at which the clock is observed: an issue time, the last
\* second of the OTP window and the first after it and, by the callers that
\* send one request at a time, the second a token issued at 0 names as its
\* exp.
TimePoints ==
    {0, OTPWindow, OTPWindow + 1} \cup (IF Thorough THEN {TokenLifetime} ELSE {})

\* time.Now() moves on between any two steps.
Tick ==
    /\ main = Serving
    /\ \E t \in TimePoints : t > now /\ now' = t
    /\ last' = <<>>
    /\ UNCHANGED <<storage, nextID, workers, issued, nreq, sequential, callers, budget, sent,
                   otpHistory, backend,
                   main, nfault, oplog, mu>>

(* ------------------------- the store in use ---------------------------- *)

\* Whether the next store operation may fail: the in-memory store never
\* returns an error other than "key not found"; RedisStorage returns the
\* client's error (timeout, connection failure).
Faults == IF backend = "redis" /\ nfault < MaxFaults THEN {FALSE, TRUE} ELSE {FALSE}

\* The step's store operation failed, or did not.
Fault(fail) == nfault' = nfault + (IF fail THEN 1 ELSE 0)

\* storage.Get(key): <<bytes>>, or <<>> when err != nil ("key not found", or
\* the failure of the operation).
StorageGet(key, fail) == IF fail THEN <<>> ELSE Get(storage, key)

\* storage.Put(key, value): the store afterwards.  A failed Put leaves it as
\* it was, and its error goes to the caller.
StoragePut(key, value, fail) == IF fail THEN storage ELSE Put(storage, key, value)

\* A Delete that takes every record of the key's owner with it.
StorageDelete_wide(key, fail) ==
    IF fail THEN storage
    ELSE [k \in {x \in DOMAIN storage : x[2] # key[2]} |-> storage[k]]

\* storage.Delete(key): likewise.
StorageDelete(key, fail) == IF fail THEN storage ELSE Delete(storage, key)

(* -------------------------------- startup ------------------------------ *)

\* Whether the durable backend answers a connection attempt.
Reachable == {FALSE, TRUE}

\* A loop that makes one attempt more.
AttemptsLeft_more(i) == i <= MaxAttempts

\* The condition of the loop of main: i < 20.
AttemptsLeft(i) == i < MaxAttempts

\* One turn of the loop of main: storage, err = NewRedisStorage(redisURL);
\* break on success, else count and sleep.  ok counts the attempts that
\* succeeded.
main_connect ==
    /\ main.pc = "connect"
    /\ AttemptsLeft(main.i)
    /\ \E up \in Reachable :
          IF up
          THEN /\ backend' = "redis"
               /\ main' = [main EXCEPT !.err = FALSE, !.ok = @ + 1, !.pc = "select"]
          ELSE /\ backend' = "nil"
               /\ main' = [main EXCEPT !.err = TRUE, !.i = @ + 1,
                                       !.pc = IF AttemptsLeft(main.i + 1)
                                              THEN "connect" ELSE "select"]
    /\ last' = <<>>
    /\ UNCHANGED <<storage, now, nextID, workers, issued, nreq, sequential, callers,
                   budget, sent,
                   otpHistory,
                   nfault, oplog, mu>>

\* A fallback taken whatever the loop ended with.
NeedFallback_always(err) == TRUE

\* if err != nil after the loop
NeedFallback(err) == err

\* After the loop: the in-memory store if the loop ended with an error, then
\* http.ListenAndServe.
main_serve ==
    /\ main.pc = "select"
    /\ backend' = IF NeedFallback(main.err) THEN "memory" ELSE backend
    /\ main' = Serving
    /\ last' = <<>>
    /\ UNCHANGED <<storage, now, nextID, workers, issued, nreq, sequential, callers,
                   budget, sent,
                   otpHistory,
                   nfault, oplog, mu>>

(* ----------------------------- handleRequest --------------------------- *)

\* The first path segment of the API paths, and the methods callers use.
APIPaths == {"register", "verify", "connect", "config", "infrastructure", "health"}

Methods == {"OPTIONS", "GET", "POST"}

\* Request lines handleRequest answers itself or passes to no handler.  The
\* callers that send one request at a time to the in-memory store try every
\* method on every path; the others send the preflight of /register.
RequestLines ==
    IF Thorough THEN Methods \X APIPaths ELSE {<<"OPTIONS", "register">>}

\* The cases of the switch that call a handler.
Routed(method, path) ==
    \/ method = "POST" /\ path \in {"register", "verify", "connect", "infrastructure"}
    \/ method = "GET" /\ path \in {"config", "infrastructure"}

\* The headers set on every answer to an API path.
CORSHeaders ==
    [content_type |-> "application/json",
     allow_origin |-> "*",
     allow_methods |-> "GET, POST, OPTIONS",
     allow_headers |-> "Content-Type, Authorization"]

\* A dispatcher that has no preflight branch.
IsPreflight_never(method) == FALSE

\* r.Method == "OPTIONS"
IsPreflight(method) == method = "OPTIONS"

\* handleRequest on an API path, for the request lines it does not pass to a
\* handler: the headers, the OPTIONS return, GET /health, and the default
\* case of the switch.  The request carries no Authorization header.
handleRequest(method, path) ==
    /\ Arrive
    /\ UNCHANGED <<storage, now, nextID, workers, issued, sent, otpHistory, nfault>>
    /\ LET req == [Fresh("options") EXCEPT !.method = method, !.path = path] IN
       IF IsPreflight(method)
       THEN last' = Response(req, 200, "", CORSHeaders)
       ELSE IF method = "GET" /\ path = "health"
       THEN last' = Response([req EXCEPT !.op = "health"], 200, "",
                             [status |-> "healthy", service |-> "soltar-vpn"])
       ELSE /\ ~Routed(method, path)
            /\ last' = Response([req EXCEPT !.op = "notfound"], 404, "Not found", NoBody)

(* -------------------------------- /debug ------------------------------- *)

\* Keys a caller may name in GET /debug/<key>: the OTP record of an email
\* and, from the callers that try everything, a client record and a key that
\* was never stored.
DebugKeys ==
    {otpKeyOf(e) : e \in callers}
        \cup (IF Thorough
              THEN {clientKeyOf(e) : e \in callers} \cup {otpKeyOf("nobody@x.com")}
              ELSE {})

\* What handleDebug answers on store s: 404 when Get returns an error, else
\* the key and the stored bytes (size, their length, goes with data).
DebugResponse(s, key, fail) ==
    IF fail \/ ~Has(s, key)
    THEN [code |-> 404, msg |-> "Key not found", out |-> NoBody]
    ELSE [code |-> 200, msg |-> "", out |-> [key |-> key, data |-> s[key]]]

\* handleDebug: GET /debug/<key>, no Authorization header read.
handleDebug(key) ==
    /\ Arrive
    /\ UNCHANGED <<storage, now, nextID, workers, issued, sent, otpHistory>>
    /\ \E fail \in Faults :
          /\ Fault(fail)
          /\ LET req == [Fresh("debug") EXCEPT !.method = "GET", !.path = "debug",
                                              !.key = key, !.err = fail]
                 r == DebugResponse(storage, key, fail)
             IN  last' = Response(req, r.code, r.msg, r.out)

\* The two keys handleDebugList probes: literals of the source, neither in
\* the key format the handlers write.
DebugListKeys ==
    {<<"client_ac5f3df0-4f70-4cb2-846d-5cc0e4f2e2c9", "">>, otpKeyOf("glassrye@gmail.com")}

\* handleDebugList: GET /debug; the probed keys that Get finds.
handleDebugList ==
    /\ Arrive
    /\ UNCHANGED <<storage, now, nextID, workers, issued, sent, otpHistory>>
    /\ \E fail \in Faults :
          /\ Fault(fail)
          /\ LET req == [Fresh("debuglist") EXCEPT !.method = "GET", !.path = "debug",
                                                  !.err = fail]
                 keys == {k \in DebugListKeys : ~fail /\ Has(storage, k)}
             IN  last' = Response(req, 200, "",
                                  [available_keys |-> keys, total_keys |-> Cardinality(keys)])

(* ------------------------------ /register ------------------------------ *)

\* Bodies of POST /register: <<>> does not decode, <<r>> decodes to r.
RegisterBodies ==
    {<<[email |-> e]>> : e \in callers}
        \cup (IF Thorough THEN {<<>>, <<[email |-> ""]>>} ELSE {})

\* The decimal digits of n, most significant first: %d.
RECURSIVE Itoa(_)
Itoa(n) == IF n < 10 THEN <<n>> ELSE Append(Itoa(n \div 10), n % 10)

\* fmt.Sprintf("%06d", n): zeros on the left up to a width of 6, and every
\* digit of a longer number.
Sprintf06d(n) ==
    LET d == Itoa(n)
        pad == 6 - Len(d)
    IN  IF pad <= 0 THEN d ELSE [i \in 1..6 |-> IF i <= pad THEN 0 ELSE d[i - pad]]

\* A generateOTP that returns the whole formatted number.
generateOTPFrom_whole(bytes) ==
    Sprintf06d(bytes[1] * 65536 + bytes[2] * 256 + bytes[3])

\* generateOTP on given random bytes: the first 6 characters of the number
\* the three bytes spell, big-endian.  A string is the sequence of its digits.
generateOTPFrom(bytes) ==
    SubSeq(Sprintf06d(bytes[1] * 65536 + bytes[2] * 256 + bytes[3]), 1, 6)

\* generateOTP: the codes it may return.
generateOTP == {generateOTPFrom(bytes) : bytes \in RandomBytes}

\* Candidates a caller may present to /verify.
Codes == generateOTP

\* An OTP record whose attempts start at 1.
NewOTPData_attempted(otp, t) == [otp |-> otp, expires |-> t + OTPWindow, attempts |-> 1]

\* The OTP record handleRegister stores (a map, stored under its own keys).
NewOTPData(otp, t) == [otp |-> otp, expires |-> t + OTPWindow, attempts |-> 0]

\* sendOTPEmail(email, otp): the codes sent so far; latest marks the one
\* sent last to its email.
Outbox(out, email, otp) ==
    {[x EXCEPT !.latest = (@ /\ x.email # email)] : x \in out}
        \cup {[email |-> email, otp |-> otp, latest |-> TRUE]}

\* An email check that lets every email through.
MissingEmail_never(email) == FALSE

\* req.Email == ""
MissingEmail(email) == email = ""

\* handleRegister: decode, check the email, generate the code, store it (the
\* error of Put is dropped), send it, answer 200.
handleRegister(body) ==
    /\ Arrive
    /\ UNCHANGED workers
    /\ UNCHANGED <<now, nextID, issued>>
    /\ LET req == Fresh("register") IN
       IF body = <<>>
       THEN /\ last' = Response(req, 400, "Invalid request", NoBody)
            /\ UNCHANGED <<storage, sent, nfault, otpHistory>>
       ELSE IF MissingEmail(body[1].email)
       THEN /\ last' = Response([req EXCEPT !.email = body[1].email],
                                400, "Missing email", NoBody)
            /\ UNCHANGED <<storage, sent, nfault, otpHistory>>
       ELSE \E otp \in generateOTP, fail \in Faults :
            /\ storage' = StoragePut(otpKeyOf(body[1].email), NewOTPData(otp, now), fail)
            /\ Fault(fail)
            /\ sent' = Outbox(sent, body[1].email, otp)
            /\ IF fail THEN UNCHANGED otpHistory ELSE CodeStored(body[1].email)
            /\ last' = Response([req EXCEPT !.email = body[1].email, !.otp = otp,
                                            !.err = fail],
                                200, "OTP sent to email", NoBody)

(* ------------------------------- /verify ------------------------------- *)

VerifyBodies ==
    {<<[email |-> e, otp |-> c]>> : e \in callers, c \in Codes}
        \cup (IF Thorough THEN {<<>>} ELSE {})

\* A comparison that lets every candidate through.
OTPMismatch_never(otpData, candidate) == FALSE

\* otpData["otp"] != req.OTP: exact comparison of the stored string.
OTPMismatch(otpData, candidate) == otpData.otp # candidate

\* Variants of the expiry check: one that never fires, one that fires a
\* second early.
OTPExpired_never(otpData, t) == FALSE

OTPExpired_early(otpData, t) == t >= otpData.expires

\* time.Now().Unix() > int64(otpData["expires"])
OTPExpired(otpData, t) == t > otpData.expires

\* A mismatch branch that burns the pending record.
AfterMismatch_removes(s, key) == Delete(s, key)

\* The store after the mismatch branch of handleVerify: the branch logs,
\* answers 400 and returns; it makes no call on the store.
AfterMismatch(s, key) == s

\* Finishing a request: the worker is free again and the answer is out.
Finish(w, req, code, msg, out) ==
    /\ workers' = [workers EXCEPT ![w] = Idle]
    /\ last' = Response(req, code, msg, out)

\* handleVerify up to the expiry check: decode, read otp:<email>, compare.
handleVerify(w, body) ==
    /\ Arrive
    /\ FreeSlot(w)
    /\ UNCHANGED <<now, nextID, issued, sent>>
    /\ LET req == Fresh("verify") IN
       IF body = <<>>
       THEN /\ UNCHANGED <<storage, workers, nfault, otpHistory>>
            /\ last' = Response(req, 400, "Invalid request", NoBody)
       ELSE \E fail \in Faults :
            /\ Fault(fail)
            /\ LET otpBytes == StorageGet(otpKeyOf(body[1].email), fail)
                   r == [req EXCEPT !.email = body[1].email, !.otp = body[1].otp,
                                    !.seen = otpBytes, !.err = fail,
                                    !.serial = HistoryOf(body[1].email).serial]
               IN  IF otpBytes = <<>>
                   THEN /\ UNCHANGED <<storage, workers, otpHistory>>
                        /\ last' = Response(r, 400, "Invalid OTP", NoBody)
                   ELSE IF OTPMismatch(otpBytes[1], body[1].otp)
                   THEN /\ UNCHANGED workers
                        /\ storage' = AfterMismatch(storage, otpKeyOf(body[1].email))
                        /\ CandidateFailed(body[1].email)
                        /\ last' = Response(r, 400, "Invalid OTP", NoBody)
                   ELSE IF OTPExpired(otpBytes[1], now)
                   THEN /\ workers' = [workers EXCEPT ![w] = [r EXCEPT !.pc = "verify_expired"]]
                        /\ last' = <<>>
                        /\ UNCHANGED <<storage, otpHistory>>
                   ELSE /\ workers' = [workers EXCEPT ![w] = [r EXCEPT !.pc = "getOrCreate_get"]]
                        /\ last' = <<>>
                        /\ UNCHANGED <<storage, otpHistory>>

\* The expired branch: storage.Delete(otpKey), then 400.
handleVerify_expired(w) ==
    /\ workers[w].pc = "verify_expired"
    /\ \E fail \in Faults :
          /\ Fault(fail)
          /\ UNCHANGED otpHistory
          /\ storage' = StorageDelete(otpKeyOf(workers[w].email), fail)
          /\ Finish(w, [workers[w] EXCEPT !.err = @ \/ fail], 400, "OTP expired", NoBody)
    /\ UNCHANGED <<now, nextID, issued, nreq, sequential, callers, budget, sent, backend, main,
                   oplog, mu>>

\* A lookup whose hit is ignored.
ClientFound_never(clientBytes) == FALSE

\* err == nil after storage.Get(clientKey)
ClientFound(clientBytes) == clientBytes # <<>>

\* A generator that returns the same identifier at every call.
uuidNew_fixed(n) == 1

\* uuid.New().String() when n identifiers have been handed out: one that was
\* never handed out before.
uuidNew(n) == n + 1

\* getOrCreateClientWithInfrastructure: the lookup by email.  A hit returns
\* the stored client; anything else draws two uuids and builds the new
\* aggregate.
getOrCreate_get(w) ==
    /\ workers[w].pc = "getOrCreate_get"
    /\ \E fail \in Faults :
          /\ Fault(fail)
          /\ LET clientBytes == StorageGet(clientKeyOf(workers[w].email), fail) IN
             IF ClientFound(clientBytes)
             THEN /\ workers' = [workers EXCEPT
                        ![w].data = <<UnmarshalClientData(clientBytes[1])>>,
                        ![w].pc = "verify_cleanup"]
                  /\ UNCHANGED nextID
             ELSE /\ nextID < MaxClients
                  /\ nextID' = nextID + 1
                  /\ workers' = [workers EXCEPT
                        ![w].data = <<NewClientData(uuidNew(nextID), uuidNew(nextID),
                                                    workers[w].email, now)>>,
                        ![w].created = TRUE,
                        ![w].err = @ \/ fail,
                        ![w].pc = "getOrCreate_putEmail"]
    /\ last' = <<>>
    /\ UNCHANGED <<storage, now, issued, nreq, sequential, callers, budget, sent, otpHistory,
                   backend, main, oplog, mu>>

\* storage.Put(clientKey, newClientBytes)
getOrCreate_putEmail(w) ==
    /\ workers[w].pc = "getOrCreate_putEmail"
    /\ \E fail \in Faults :
          /\ Fault(fail)
          /\ storage' = StoragePut(clientKeyOf(workers[w].email),
                                   MarshalClientData(workers[w].data[1]), fail)
          /\ workers' = [workers EXCEPT ![w].pc = "getOrCreate_putID",
                                        ![w].err = @ \/ fail]
    /\ last' = <<>>
    /\ UNCHANGED <<now, nextID, issued, nreq, sequential, callers, budget, sent, otpHistory,
                   backend, main, oplog, mu>>

\* storage.Put(idKey, newClientBytes)
getOrCreate_putID(w) ==
    /\ workers[w].pc = "getOrCreate_putID"
    /\ \E fail \in Faults :
          /\ Fault(fail)
          /\ storage' = StoragePut(idKeyOf(workers[w].data[1].ID),
                                   MarshalClientData(workers[w].data[1]), fail)
          /\ workers' = [workers EXCEPT ![w].pc = "getOrCreate_putEnv",
                                        ![w].err = @ \/ fail]
    /\ last' = <<>>
    /\ UNCHANGED <<now, nextID, issued, nreq, sequential, callers, budget, sent, otpHistory,
                   backend, main, oplog, mu>>

\* storage.Put(envKey, envBytes)
getOrCreate_putEnv(w) ==
    /\ workers[w].pc = "getOrCreate_putEnv"
    /\ \E fail \in Faults :
          /\ Fault(fail)
          /\ storage' = StoragePut(envKeyOf(workers[w].data[1].Environment.ID),
                                   MarshalEnvironment(workers[w].data[1].Environment), fail)
          /\ workers' = [workers EXCEPT ![w].pc = "verify_cleanup",
                                        ![w].err = @ \/ fail]
    /\ last' = <<>>
    /\ UNCHANGED <<now, nextID, issued, nreq, sequential, callers, budget, sent, otpHistory,
                   backend, main, oplog, mu>>

\* The AuthResponse of a successful /verify.
AuthResponse(clientData, token) ==
    [client_id |-> clientData.ID, token |-> token,
     environment |-> MarshalEnvironment(clientData.Environment)]

\* handleVerify after getOrCreate: mint the token, delete the OTP, answer 200.
handleVerify_cleanup(w) ==
    /\ workers[w].pc = "verify_cleanup"
    /\ \E fail \in Faults :
          /\ Fault(fail)
          /\ UNCHANGED otpHistory
          /\ LET clientData == workers[w].data[1]
                 token == generateToken(clientData.ID, now)
             IN  /\ storage' = StorageDelete(otpKeyOf(workers[w].email), fail)
                 /\ Finish(w, [workers[w] EXCEPT !.err = @ \/ fail], 200, "",
                           AuthResponse(clientData, token))
                 /\ issued' = issued \cup
                      {[email |-> workers[w].email, otp |-> workers[w].otp,
                        serial |-> workers[w].serial,
                        client_id |-> clientData.ID,
                        environment_id |-> clientData.Environment.ID,
                        environment |-> MarshalEnvironment(clientData.Environment),
                        token |-> token]}
    /\ UNCHANGED <<now, nextID, nreq, sequential, callers, budget, sent, backend, main,
                   oplog, mu>>

(* ----------------------- token-authenticated requests ------------------ *)

\* Authorization headers a caller may send: none (<<>>), or "Bearer " and a
\* token /verify returned, a token signed with the secret for an identifier
\* this store never held, a forged one, or a string that is no token.
AuthHeaders ==
    {<<k.token>> : k \in issued}
        \cup (IF Thorough
              THEN {<<>>, <<generateToken(UnknownClientID, 0)>>, <<ForgedToken(1, 0)>>,
                    <<MalformedToken>>}
              ELSE {})

\* getClientInfrastructure: <<clientData>>, or <<>> for nil (any error of Get).
getClientInfrastructure(clientID, fail) ==
    LET clientBytes == StorageGet(idKeyOf(clientID), fail) IN
    IF clientBytes = <<>> THEN <<>> ELSE <<UnmarshalClientData(clientBytes[1])>>

\* updateClientLastSeen: the modification between its read and its writes.
touchLastSeen(clientData, t) == [clientData EXCEPT !.LastSeen = t]

\* A replace that adds the new ids to the stored ones.
replaceInfrastructure_merging(clientData, infrastructure, t) ==
    [clientData EXCEPT !.Infrastructure =
        [VPNInstances |-> @.VPNInstances \cup infrastructure.VPNInstances,
         LoadBalancers |-> @.LoadBalancers \cup infrastructure.LoadBalancers,
         Databases |-> @.Databases \cup infrastructure.Databases,
         Storage |-> @.Storage \cup infrastructure.Storage,
         Created |-> infrastructure.Created,
         LastUpdated |-> t]]

\* updateClientInfrastructure: the modification between its read and its writes.
replaceInfrastructure(clientData, infrastructure, t) ==
    [clientData EXCEPT !.Infrastructure = [infrastructure EXCEPT !.LastUpdated = t]]

\* A head that also looks the subject of the token up in the store.
Unauthorized_lookup(auth, t) ==
    IF auth = <<>> THEN <<"Unauthorized">>
    ELSE IF validateToken(auth[1], t) = <<>> THEN <<"Invalid token">>
    ELSE IF ~Has(storage, idKeyOf(validateToken(auth[1], t)[1])) THEN <<"Invalid token">>
    ELSE <<>>

\* The head of the four handlers: header, token.  <<>> when the request may
\* go on, else the answer.
Unauthorized(auth, t) ==
    IF auth = <<>> THEN <<"Unauthorized">>
    ELSE IF validateToken(auth[1], t) = <<>> THEN <<"Invalid token">>
    ELSE <<>>

\* handleConnect up to its lookup: 401, 404, or on to updateClientLastSeen.
handleConnect(w, auth) ==
    /\ Arrive
    /\ FreeSlot(w)
    /\ UNCHANGED <<storage, now, nextID, issued, sent, otpHistory>>
    /\ LET req == [Fresh("connect") EXCEPT !.tok = auth] IN
       IF Unauthorized(auth, now) # <<>>
       THEN /\ UNCHANGED <<workers, nfault>>
            /\ last' = Response(req, 401, Unauthorized(auth, now)[1], NoBody)
       ELSE \E fail \in Faults :
            /\ Fault(fail)
            /\ LET clientID == validateToken(auth[1], now)[1]
                   clientData == getClientInfrastructure(clientID, fail)
                   r == [req EXCEPT !.cid = clientID, !.data = clientData, !.err = fail]
               IN  IF clientData = <<>>
                   THEN /\ UNCHANGED workers
                        /\ last' = Response(r, 404, "Client not found", NoBody)
                   ELSE /\ workers' = [workers EXCEPT ![w] = [r EXCEPT !.pc = "lastSeen_get"]]
                        /\ last' = <<>>

ConnectResponse(req) ==
    [status |-> "connected", client_id |-> req.cid,
     environment |-> MarshalEnvironment(req.data[1].Environment)]

\* updateClientLastSeen: its own read of client_id:<id>.
updateClientLastSeen_get(w) ==
    /\ workers[w].pc = "lastSeen_get"
    /\ \E fail \in Faults :
          /\ Fault(fail)
          /\ LET clientData == getClientInfrastructure(workers[w].cid, fail)
                 req == [workers[w] EXCEPT !.err = @ \/ fail]
             IN  IF clientData = <<>>
                 THEN Finish(w, req, 200, "", ConnectResponse(req))
                 ELSE /\ workers' = [workers EXCEPT ![w] =
                            [req EXCEPT !.upd = <<touchLastSeen(clientData[1], now)>>,
                                        !.pc = "lastSeen_putID"]]
                      /\ last' = <<>>
    /\ UNCHANGED <<storage, now, nextID, issued, nreq, sequential, callers, budget, sent,
                   otpHistory, backend, main,
                   oplog, mu>>

\* storage.Put("client_id:<id>", updatedBytes)
updateClientLastSeen_putID(w) ==
    /\ workers[w].pc = "lastSeen_putID"
    /\ \E fail \in Faults :
          /\ Fault(fail)
          /\ storage' = StoragePut(idKeyOf(workers[w].cid),
                                   MarshalClientData(workers[w].upd[1]), fail)
          /\ workers' = [workers EXCEPT ![w].pc = "lastSeen_putEmail",
                                        ![w].err = @ \/ fail]
    /\ last' = <<>>
    /\ UNCHANGED <<now, nextID, issued, nreq, sequential, callers, budget, sent, otpHistory,
                   backend, main, oplog, mu>>

\* storage.Put("client:<email>", updatedBytes), then handleConnect answers.
updateClientLastSeen_putEmail(w) ==
    /\ workers[w].pc = "lastSeen_putEmail"
    /\ \E fail \in Faults :
          /\ Fault(fail)
          /\ storage' = StoragePut(clientKeyOf(workers[w].upd[1].Email),
                                   MarshalClientData(workers[w].upd[1]), fail)
          /\ Finish(w, [workers[w] EXCEPT !.err = @ \/ fail], 200, "",
                    ConnectResponse(workers[w]))
    /\ UNCHANGED <<now, nextID, issued, nreq, sequential, callers, budget, sent, otpHistory,
                   backend, main, oplog, mu>>

\* The VPNConfig handleConfig answers with.
VPNConfig(clientData, token) ==
    [server |-> clientData.Environment.VPNServer,
     port |-> clientData.Environment.VPNPort,
     token |-> token,
     environment_id |-> clientData.Environment.ID]

\* handleConfig: one lookup, then the VPNConfig.
handleConfig(auth) ==
    /\ Arrive
    /\ UNCHANGED <<storage, now, nextID, workers, issued, sent, otpHistory>>
    /\ LET req == [Fresh("config") EXCEPT !.tok = auth] IN
       IF Unauthorized(auth, now) # <<>>
       THEN /\ last' = Response(req, 401, Unauthorized(auth, now)[1], NoBody)
            /\ UNCHANGED nfault
       ELSE \E fail \in Faults :
            /\ Fault(fail)
            /\ LET clientID == validateToken(auth[1], now)[1]
                   clientData == getClientInfrastructure(clientID, fail)
                   r == [req EXCEPT !.cid = clientID, !.data = clientData, !.err = fail]
               IN  IF clientData = <<>>
                   THEN last' = Response(r, 404, "Client not found", NoBody)
                   ELSE last' = Response(r, 200, "", VPNConfig(clientData[1], auth[1]))

\* Manifests a caller may send: the four id-sets; the two timestamps are
\* whatever the body carries (the zero time when it leaves them out).
Manifests ==
    {[vpn_instances |-> {"i-1"}, load_balancers |-> {}, databases |-> {}, storage |-> {},
      created |-> ZeroTime, last_updated |-> ZeroTime],
     [vpn_instances |-> {}, load_balancers |-> {"lb-1"}, databases |-> {"db-1"},
      storage |-> {}, created |-> ZeroTime, last_updated |-> ZeroTime]}

\* Bodies of POST /infrastructure: <<>> does not decode.
InfrastructureBodies ==
    {<<[infrastructure |-> m]>> : m \in Manifests}
        \cup (IF Thorough THEN {<<>>} ELSE {})

\* handleInfrastructure up to the read of updateClientInfrastructure.
handleInfrastructure(w, auth, body) ==
    /\ Arrive
    /\ FreeSlot(w)
    /\ UNCHANGED <<storage, now, nextID, issued, sent, otpHistory>>
    /\ LET req == [Fresh("postinfra") EXCEPT !.tok = auth] IN
       IF Unauthorized(auth, now) # <<>>
       THEN /\ UNCHANGED <<workers, nfault>>
            /\ last' = Response(req, 401, Unauthorized(auth, now)[1], NoBody)
       ELSE IF body = <<>>
       THEN /\ UNCHANGED <<workers, nfault>>
            /\ last' = Response([req EXCEPT !.cid = validateToken(auth[1], now)[1]],
                                400, "Invalid request", NoBody)
       ELSE \E fail \in Faults :
            /\ Fault(fail)
            /\ LET clientID == validateToken(auth[1], now)[1]
                   infrastructure == UnmarshalInfrastructure(body[1].infrastructure)
                   clientData == getClientInfrastructure(clientID, fail)
                   r == [req EXCEPT !.cid = clientID, !.data = <<infrastructure>>,
                                    !.err = fail]
               IN  IF clientData = <<>>
                   THEN /\ UNCHANGED workers
                        /\ last' = Response(r, 200, "Infrastructure updated",
                                            [client_id |-> clientID])
                   ELSE /\ workers' = [workers EXCEPT ![w] =
                             [r EXCEPT !.upd = <<replaceInfrastructure(clientData[1],
                                                                       infrastructure, now)>>,
                                       !.pc = "infra_putID"]]
                        /\ last' = <<>>

\* storage.Put("client_id:<id>", updatedBytes)
updateClientInfrastructure_putID(w) ==
    /\ workers[w].pc = "infra_putID"
    /\ \E fail \in Faults :
          /\ Fault(fail)
          /\ storage' = StoragePut(idKeyOf(workers[w].cid),
                                   MarshalClientData(workers[w].upd[1]), fail)
          /\ workers' = [workers EXCEPT ![w].pc = "infra_putEmail",
                                        ![w].err = @ \/ fail]
    /\ last' = <<>>
    /\ UNCHANGED <<now, nextID, issued, nreq, sequential, callers, budget, sent, otpHistory,
                   backend, main, oplog, mu>>

\* storage.Put("client:<email>", updatedBytes), then handleInfrastructure answers.
updateClientInfrastructure_putEmail(w) ==
    /\ workers[w].pc = "infra_putEmail"
    /\ \E fail \in Faults :
          /\ Fault(fail)
          /\ storage' = StoragePut(clientKeyOf(workers[w].upd[1].Email),
                                   MarshalClientData(workers[w].upd[1]), fail)
          /\ Finish(w, [workers[w] EXCEPT !.err = @ \/ fail], 200,
                    "Infrastructure updated", [client_id |-> workers[w].cid])
    /\ UNCHANGED <<now, nextID, issued, nreq, sequential, callers, budget, sent, otpHistory,
                   backend, main, oplog, mu>>

\* handleGetInfrastructure: one lookup, then the manifest and the environment.
handleGetInfrastructure(auth) ==
    /\ Arrive
    /\ UNCHANGED <<storage, now, nextID, workers, issued, sent, otpHistory>>
    /\ LET req == [Fresh("getinfra") EXCEPT !.tok = auth] IN
       IF Unauthorized(auth, now) # <<>>
       THEN /\ last' = Response(req, 401, Unauthorized(auth, now)[1], NoBody)
            /\ UNCHANGED nfault
       ELSE \E fail \in Faults :
            /\ Fault(fail)
            /\ LET clientID == validateToken(auth[1], now)[1]
                   clientData == getClientInfrastructure(clientID, fail)
                   r == [req EXCEPT !.cid = clientID, !.data = clientData, !.err = fail]
               IN  IF clientData = <<>>
                   THEN last' = Response(r, 404, "Client not found", NoBody)
                   ELSE last' = Response(r, 200, "",
                           [client_id |-> clientID,
                            infrastructure |-> MarshalInfrastructure(clientData[1].Infrastructure),
                            environment |-> MarshalEnvironment(clientData[1].Environment)])

(* ---------------------------- specification ---------------------------- *)

Next ==
    \/ Tick
    \/ \E line \in RequestLines : handleRequest(line[1], line[2])
    \/ \E key \in DebugKeys : handleDebug(key)
    \/ handleDebugList
    \/ \E body \in RegisterBodies : handleRegister(body)
    \/ \E w \in Workers, body \in VerifyBodies : handleVerify(w, body)
    \/ \E w \in Workers : handleVerify_expired(w)
    \/ \E w \in Workers : getOrCreate_get(w)
    \/ \E w \in Workers : getOrCreate_putEmail(w)
    \/ \E w \in Workers : getOrCreate_putID(w)
    \/ \E w \in Workers : getOrCreate_putEnv(w)
    \/ \E w \in Workers : handleVerify_cleanup(w)
    \/ \E w \in Workers, auth \in AuthHeaders : handleConnect(w, auth)
    \/ \E w \in Workers : updateClientLastSeen_get(w)
    \/ \E w \in Workers : updateClientLastSeen_putID(w)
    \/ \E w \in Workers : updateClientLastSeen_putEmail(w)
    \/ \E auth \in AuthHeaders : handleConfig(auth)
    \/ \E w \in Workers, auth \in AuthHeaders, body \in InfrastructureBodies :
          handleInfrastructure(w, auth, body)
    \/ \E w \in Workers : updateClientInfrastructure_putID(w)
    \/ \E w \in Workers : updateClientInfrastructure_putEmail(w)
    \/ \E auth \in AuthHeaders : handleGetInfrastructure(auth)

Spec == Init /\ [][Next]_vars

\* The same service with callers that send one request at a time.
SeqInit ==
    /\ storage = << >>
    /\ now = 0
    /\ nextID = 0
    /\ workers = [w \in Workers |-> Idle]
    /\ last = <<>>
    /\ issued = {}
    /\ nreq = 0
    /\ sequential = TRUE
    /\ callers = Emails
    /\ budget = MaxSeqRequests
    /\ sent = {}
    /\ backend = "memory"
    /\ main = Serving
    /\ nfault = 0
    /\ oplog = <<>>
    /\ otpHistory = << >>
    /\ mu = Unlocked

SeqSpec == SeqInit /\ [][Next]_vars

\* The process from the start of main, the durable backend reachable or not
\* at each attempt, with callers that send one request at a time.
StartInit ==
    /\ storage = << >>
    /\ now = 0
    /\ nextID = 0
    /\ workers = [w \in Workers |-> Idle]
    /\ last = <<>>
    /\ issued = {}
    /\ nreq = 0
    /\ sequential = TRUE
    /\ callers = Emails
    /\ budget = MaxStartRequests
    /\ sent = {}
    /\ backend = "nil"
    /\ main = [pc |-> "connect", i |-> 0, err |-> FALSE, ok |-> 0]
    /\ nfault = 0
    /\ oplog = <<>>
    /\ otpHistory = << >>
    /\ mu = Unlocked

StartNext ==
    \/ main_connect
    \/ main_serve
    \/ Next

StartSpec == StartInit /\ [][StartNext]_vars

\* The service with callers of two emails that send one request at a time.
IsoEmails == {"a@x.com", "b@x.com"}

IsoInit ==
    /\ storage = << >>
    /\ now = 0
    /\ nextID = 0
    /\ workers = [w \in Workers |-> Idle]
    /\ last = <<>>
    /\ issued = {}
    /\ nreq = 0
    /\ sequential = TRUE
    /\ callers = IsoEmails
    /\ budget = MaxIsoRequests
    /\ sent = {}
    /\ backend = "memory"
    /\ main = Serving
    /\ nfault = 0
    /\ oplog = <<>>
    /\ otpHistory = << >>
    /\ mu = Unlocked

IsoSpec == IsoInit /\ [][Next]_vars

\* The startup under the scheduling of the process: main is one goroutine
\* that nothing blocks (NewRedisStorage pings with a timeout of 5 seconds,
\* time.Sleep returns), so a turn of its loop and the step after the loop are
\* taken once they are possible.
LiveInit ==
    /\ storage = << >>
    /\ now = 0
    /\ nextID = 0
    /\ workers = [w \in Workers |-> Idle]
    /\ last = <<>>
    /\ issued = {}
    /\ nreq = 0
    /\ sequential = TRUE
    /\ callers = Emails
    /\ budget = MaxLiveRequests
    /\ sent = {}
    /\ backend = "nil"
    /\ main = [pc |-> "connect", i |-> 0, err |-> FALSE, ok |-> 0]
    /\ nfault = 0
    /\ oplog = <<>>
    /\ otpHistory = << >>
    /\ mu = Unlocked

LiveSpec ==
    /\ LiveInit
    /\ [][StartNext]_vars
    /\ WF_vars(main_connect)
    /\ WF_vars(main_serve)

\* The same process with the clock moving on as well: time passes whether
\* or not requests arrive.  Neither store removes a key by itself:
\* RedisStorage.Put calls Set with expiration 0 and InMemoryStorage keeps no
\* time, so no action of the store is added.
ExpirySpec ==
    /\ LiveInit
    /\ [][StartNext]_vars
    /\ WF_vars(main_connect)
    /\ WF_vars(main_serve)
    /\ WF_vars(Tick)

(* ---------------------- getOrCreate by concurrent callers -------------- *)

\* The emails of the goroutines of TestConcurrentAccess, one each.
CreateEmails == {"a@x.com", "b@x.com", "c@x.com"}

\* An empty store and no call yet; as many calls are made as identifiers
\* may be handed out.
CreateInit ==
    /\ storage = << >>
    /\ now = 0
    /\ nextID = 0
    /\ workers = [w \in Workers |-> Idle]
    /\ last = <<>>
    /\ issued = {}
    /\ nreq = 0
    /\ sequential = FALSE
    /\ callers = Emails
    /\ budget = MaxClients
    /\ sent = {}
    /\ backend = "memory"
    /\ main = Serving
    /\ nfault = 0
    /\ oplog = <<>>
    /\ otpHistory = << >>
    /\ mu = Unlocked

\* A goroutine calls getOrCreateClientWithInfrastructure(email) for an email
\* that has no client and that no other call in flight was given.
getOrCreate_call(w, email) ==
    /\ nreq < budget
    /\ FreeSlot(w)
    /\ \A v \in Workers : workers[v].email # email
    /\ ~Has(storage, clientKeyOf(email))
    /\ nreq' = nreq + 1
    /\ workers' = [workers EXCEPT ![w] =
            [Fresh("getOrCreate") EXCEPT !.email = email, !.pc = "getOrCreate_get"]]
    /\ last' = <<>>
    /\ UNCHANGED <<storage, now, nextID, issued, sequential, callers, budget, sent, otpHistory,
                   backend, main, nfault, oplog, mu>>

\* The call returns &clientData to the goroutine (code 0: no HTTP answer).
getOrCreate_return(w) ==
    /\ workers[w].op = "getOrCreate"
    /\ workers[w].pc = "verify_cleanup"
    /\ Finish(w, workers[w], 0, "", MarshalClientData(workers[w].data[1]))
    /\ UNCHANGED <<storage, now, nextID, issued, nreq, sequential, callers, budget,
                   sent, otpHistory,
                   backend, main, nfault, oplog, mu>>

CreateNext ==
    \/ Tick
    \/ \E w \in Workers, email \in CreateEmails : getOrCreate_call(w, email)
    \/ \E w \in Workers : getOrCreate_get(w)
    \/ \E w \in Workers : getOrCreate_putEmail(w)
    \/ \E w \in Workers : getOrCreate_putID(w)
    \/ \E w \in Workers : getOrCreate_putEnv(w)
    \/ \E w \in Workers : getOrCreate_return(w)

CreateSpec == CreateInit /\ [][CreateNext]_vars

(* ------------------------- generateOTP by itself ----------------------- *)

\* The largest value of a byte, and the values rand.Read may put in one.
MaxByte == 255

Bytes == 0..MaxByte

\* rand.Read has drawn the first two of the three bytes; generateOTP has
\* not formatted them yet.
OTPInit ==
    /\ storage = << >>
    /\ now = 0
    /\ nextID = 0
    /\ workers = [w \in Workers |-> Idle]
    /\ last \in {<<[op |-> "rand.Read", hi |-> hi, mid |-> mid, result |-> <<>>]>> :
                    hi \in Bytes, mid \in Bytes}
    /\ issued = {}
    /\ nreq = 0
    /\ sequential = TRUE
    /\ callers = Emails
    /\ budget = MaxSeqRequests
    /\ sent = {}
    /\ backend = "memory"
    /\ main = Serving
    /\ nfault = 0
    /\ oplog = <<>>
    /\ otpHistory = << >>
    /\ mu = Unlocked

\* generateOTP on the bytes drawn: last holds what it returns for each value
\* of the third byte.
generateOTP_call ==
    /\ last[1].op = "rand.Read"
    /\ last' = <<[last[1] EXCEPT
                    !.op = "generateOTP",
                    !.result = [lo \in Bytes |->
                                   generateOTPFrom(<<last[1].hi, last[1].mid, lo>>)]]>>
    /\ UNCHANGED <<storage, now, nextID, workers, issued, nreq, sequential, callers,
                   budget, sent,
                   otpHistory, backend, main, nfault, oplog, mu>>

OTPNext == generateOTP_call

OTPSpec == OTPInit /\ [][OTPNext]_vars

(* ------------------------- the store by itself ------------------------- *)

\* Keys and values of the calls made on a store by itself.
StoreKeys == {<<"otp", "a@x.com">>, <<"client", "a@x.com">>}

StoreValues == {"v1", "v2"}

\* A fresh InMemoryStorage, before any call.
StoreInit ==
    /\ storage = << >>
    /\ now = 0
    /\ nextID = 0
    /\ workers = [w \in Workers |-> Idle]
    /\ last = <<>>
    /\ issued = {}
    /\ nreq = 0
    /\ sequential = TRUE
    /\ callers = Emails
    /\ budget = MaxSeqRequests
    /\ sent = {}
    /\ backend = "memory"
    /\ main = Serving
    /\ nfault = 0
    /\ oplog = <<>>
    /\ otpHistory = << >>
    /\ mu = Unlocked

\* The variables a call on the store leaves alone.
StoreFrame ==
    UNCHANGED <<now, nextID, workers, issued, nreq, sequential, callers, budget, sent,
                otpHistory,
                backend, main, nfault, mu>>

\* One call of Get: last is what it returned.
Store_Get(key) ==
    /\ Len(oplog) < MaxOps
    /\ last' = <<[op |-> "get", key |-> key, result |-> Get(storage, key)]>>
    /\ oplog' = Append(oplog, [op |-> "get", key |-> key, value |-> ""])
    /\ UNCHANGED storage
    /\ StoreFrame

\* One call of Put.
Store_Put(key, value) ==
    /\ Len(oplog) < MaxOps
    /\ storage' = Put(storage, key, value)
    /\ last' = <<[op |-> "put", key |-> key, result |-> <<>>]>>
    /\ oplog' = Append(oplog, [op |-> "put", key |-> key, value |-> value])
    /\ StoreFrame

\* One call of Delete.
Store_Delete(key) ==
    /\ Len(oplog) < MaxOps
    /\ storage' = Delete(storage, key)
    /\ last' = <<[op |-> "delete", key |-> key, result |-> <<>>]>>
    /\ oplog' = Append(oplog, [op |-> "delete", key |-> key, value |-> ""])
    /\ StoreFrame

StoreNext ==
    \/ \E key \in StoreKeys : Store_Get(key)
    \/ \E key \in StoreKeys, value \in StoreValues : Store_Put(key, value)
    \/ \E key \in StoreKeys : Store_Delete(key)

StoreSpec == StoreInit /\ [][StoreNext]_vars

(* ------------------ the in-memory store, concurrent callers ------------ *)

\* What a reader finds under a key while a write of the map on that key is
\* under way: the map is being changed, and the read is a data race.
Torn == "torn"

\* The calls concurrent workers make on the store: op, key, value.
StoreCalls ==
    {<<"get", key, "">> : key \in StoreKeys}
        \cup {<<"put", key, value>> : key \in StoreKeys, value \in StoreValues}
        \cup {<<"delete", key, "">> : key \in StoreKeys}

\* A fresh InMemoryStorage and workers about to call it.
LockInit ==
    /\ storage = << >>
    /\ now = 0
    /\ nextID = 0
    /\ workers = [w \in Workers |-> Idle]
    /\ last = <<>>
    /\ issued = {}
    /\ nreq = 0
    /\ sequential = FALSE
    /\ callers = Emails
    /\ budget = MaxOps
    /\ sent = {}
    /\ backend = "memory"
    /\ main = Serving
    /\ nfault = 0
    /\ oplog = <<>>
    /\ otpHistory = << >>
    /\ mu = Unlocked

\* The variables the steps of a call on the in-memory store leave alone.
LockFrame ==
    UNCHANGED <<now, nextID, issued, sequential, callers, budget, sent, otpHistory,
                backend, main,
                nfault>>

\* A worker calls Get, Put or Delete.
InMemoryStorage_call(w, call) ==
    /\ nreq < budget
    /\ FreeSlot(w)
    /\ nreq' = nreq + 1
    /\ workers' = [workers EXCEPT ![w] =
            [Fresh(call[1]) EXCEPT !.pc = "lock", !.key = call[2], !.value = call[3]]]
    /\ last' = <<>>
    /\ UNCHANGED <<storage, oplog, mu>>
    /\ LockFrame

\* A read lock granted whoever holds the mutex.
CanRLock_always(m) == TRUE

\* m.mu.RLock() returns when no writer holds the mutex.
CanRLock(m) == m.writer = 0

\* m.mu.Lock() returns when nobody holds the mutex.
CanLock(m) == m.writer = 0 /\ m.readers = {}

\* Get: m.mu.RLock()
InMemoryStorage_RLock(w) ==
    /\ workers[w].op = "get"
    /\ workers[w].pc = "lock"
    /\ CanRLock(mu)
    /\ mu' = [mu EXCEPT !.readers = @ \cup {w}]
    /\ workers' = [workers EXCEPT ![w].pc = "access"]
    /\ last' = <<>>
    /\ UNCHANGED <<storage, nreq, oplog>>
    /\ LockFrame

\* Put, Delete: m.mu.Lock()
InMemoryStorage_Lock(w) ==
    /\ workers[w].op \in {"put", "delete"}
    /\ workers[w].pc = "lock"
    /\ CanLock(mu)
    /\ mu' = [mu EXCEPT !.writer = w]
    /\ workers' = [workers EXCEPT ![w].pc = "access"]
    /\ last' = <<>>
    /\ UNCHANGED <<storage, nreq, oplog>>
    /\ LockFrame

\* Get: data, exists := m.data[key].  The call takes effect here.
InMemoryStorage_Get(w) ==
    /\ workers[w].op = "get"
    /\ workers[w].pc = "access"
    /\ workers' = [workers EXCEPT ![w].seen = Get(storage, workers[w].key),
                                  ![w].pc = "unlock"]
    /\ oplog' = Append(oplog, [op |-> "get", key |-> workers[w].key, value |-> ""])
    /\ last' = <<>>
    /\ UNCHANGED <<storage, nreq, mu>>
    /\ LockFrame

\* Put, Delete: the map starts to change under the key.
InMemoryStorage_write(w) ==
    /\ workers[w].op \in {"put", "delete"}
    /\ workers[w].pc = "access"
    /\ storage' = Put(storage, workers[w].key, Torn)
    /\ workers' = [workers EXCEPT ![w].pc = "write"]
    /\ last' = <<>>
    /\ UNCHANGED <<nreq, oplog, mu>>
    /\ LockFrame

\* Put: m.data[key] = value is done.  The call takes effect here.
InMemoryStorage_Put(w) ==
    /\ workers[w].op = "put"
    /\ workers[w].pc = "write"
    /\ storage' = Put(storage, workers[w].key, workers[w].value)
    /\ oplog' = Append(oplog, [op |-> "put", key |-> workers[w].key,
                                value |-> workers[w].value])
    /\ workers' = [workers EXCEPT ![w].pc = "unlock"]
    /\ last' = <<>>
    /\ UNCHANGED <<nreq, mu>>
    /\ LockFrame

\* Delete: delete(m.data, key) is done.  The call takes effect here.
InMemoryStorage_Delete(w) ==
    /\ workers[w].op = "delete"
    /\ workers[w].pc = "write"
    /\ storage' = Delete(storage, workers[w].key)
    /\ oplog' = Append(oplog, [op |-> "delete", key |-> workers[w].key, value |-> ""])
    /\ workers' = [workers EXCEPT ![w].pc = "unlock"]
    /\ last' = <<>>
    /\ UNCHANGED <<nreq, mu>>
    /\ LockFrame

\* The deferred RUnlock or Unlock, and the return: last is what the call
\* returned.
InMemoryStorage_Unlock(w) ==
    /\ workers[w].pc = "unlock"
    /\ mu' = IF workers[w].op = "get"
             THEN [mu EXCEPT !.readers = @ \ {w}]
             ELSE [mu EXCEPT !.writer = 0]
    /\ workers' = [workers EXCEPT ![w] = Idle]
    /\ last' = <<[op |-> workers[w].op, key |-> workers[w].key,
                  result |-> workers[w].seen, req |-> workers[w]]>>
    /\ UNCHANGED <<storage, nreq, oplog>>
    /\ LockFrame

LockNext ==
    \/ \E w \in Workers, call \in StoreCalls : InMemoryStorage_call(w, call)
    \/ \E w \in Workers : InMemoryStorage_RLock(w)
    \/ \E w \in Workers : InMemoryStorage_Lock(w)
    \/ \E w \in Workers : InMemoryStorage_Get(w)
    \/ \E w \in Workers : InMemoryStorage_write(w)
    \/ \E w \in Workers : InMemoryStorage_Put(w)
    \/ \E w \in Workers : InMemoryStorage_Delete(w)
    \/ \E w \in Workers : InMemoryStorage_Unlock(w)

LockSpec == LockInit /\ [][LockNext]_vars

(* ================================ claims =============================== *)

\* The answer given by the step just taken, if it was to a request of kind op.
Answered(op) == last # <<>> /\ last[1].op = op

\* The store without its otp: keys.
ClientPart(s) == [k \in {x \in DOMAIN s : x[1] # "otp"} |-> s[k]]

\* What a /verify request found on arrival: a record under otp:<email> whose
\* code is the candidate and whose expiry has not passed.
Redeemable(req) ==
    /\ req.seen # <<>>
    /\ req.seen[1].otp = req.otp
    /\ req.start <= req.seen[1].expires

\* C1: /verify answers 200, with a client and a token, only if on reading
\* the store it found a record under otp:<email> with the candidate's code
\* and now <= expires; in every other case it answers 400, generates no
\* client identifier, writes no client or environment record and returns no
\* token.
C1_VerifyOnlyRedeemable ==
    /\ [](Answered("verify") =>
            LET r == last[1] IN
            /\ r.code \in {200, 400}
            /\ r.code = 200 =>
                 /\ Redeemable(r.req)
                 /\ r.out.token = generateToken(r.out.client_id, now)
            /\ ~Redeemable(r.req) =>
                 /\ r.code = 400
                 /\ r.out = NoBody
                 /\ ~r.req.created)
    /\ [][(last' # <<>> /\ last'[1].op = "verify" /\ last'[1].code = 400)
              => ClientPart(storage') = ClientPart(storage) /\ nextID' = nextID]_vars

C1_Witness ==
    /\ Answered("verify")
    /\ last[1].code = 200
    /\ last[1].req.start = OTPWindow
    /\ last[1].req.seen[1].expires = OTPWindow

\* Once otp:<email> is absent it stays absent until /register stores a new
\* code for that email.
AbsentUntilIssued ==
    \A e \in Emails :
        (~Has(storage, otpKeyOf(e)) /\ Has(storage', otpKeyOf(e)))
            => /\ last' # <<>>
               /\ last'[1].op = "register"
               /\ last'[1].code = 200
               /\ last'[1].req.email = e

\* A /verify that arrives when otp:<email> is absent answers 400 for want of
\* a record.
AbsentFails ==
    (last' # <<>> /\ last'[1].op = "verify" /\ last'[1].req.email \in Emails
        /\ ~Has(storage, otpKeyOf(last'[1].req.email)))
        => last'[1].code = 400 /\ last'[1].req.seen = <<>>

\* C2: with verifies run one after another, the verify that presents the
\* stored code inside the window answers 200 and leaves no record under
\* otp:<email>; from then on, until a new code is issued, the key stays
\* absent and every verify for the email fails for want of a record.
C2_VerifyOnce ==
    /\ [](Answered("verify") =>
            /\ Redeemable(last[1].req) => last[1].code = 200
            /\ last[1].code = 200 => ~Has(storage, otpKeyOf(last[1].req.email)))
    /\ [][AbsentUntilIssued /\ AbsentFails]_vars

\* Three requests: the code is issued, redeemed, and presented again.
C2_Witness ==
    /\ nreq = 3
    /\ Answered("verify")
    /\ last[1].code = 400
    /\ last[1].req.seen = <<>>
    /\ \E k \in issued : k.email = last[1].req.email /\ k.otp = last[1].req.otp

\* C3: the record /register stores expires at issue time + 5 minutes; a
\* verify with the stored code answers 200 when now <= expires and, when
\* now > expires, answers 400 "OTP expired" and leaves no record under
\* otp:<email>, so that every later verify fails for want of a record until
\* a new code is issued; no verify answers 200 past the expiry.
C3_ExpiryWindow ==
    /\ [](Answered("register") /\ last[1].code = 200 =>
            /\ Has(storage, otpKeyOf(last[1].req.email))
            /\ storage[otpKeyOf(last[1].req.email)].expires = now + OTPWindow)
    /\ [](Answered("verify") /\ last[1].req.seen # <<>>
             /\ last[1].req.seen[1].otp = last[1].req.otp =>
            LET q == last[1].req IN
            IF q.start <= q.seen[1].expires
            THEN last[1].code = 200
            ELSE /\ last[1].code = 400
                 /\ last[1].msg = "OTP expired"
                 /\ ~Has(storage, otpKeyOf(q.email)))
    /\ [](Answered("verify") /\ last[1].code = 200 =>
            last[1].req.start <= last[1].req.seen[1].expires)
    /\ [][(\A e \in Emails :
              (~Has(storage, otpKeyOf(e)) /\ Has(storage', otpKeyOf(e)))
                  => last' # <<>> /\ last'[1].op = "register" /\ last'[1].req.email = e)
          /\ ((last' # <<>> /\ last'[1].op = "verify" /\ last'[1].req.email \in Emails
                 /\ ~Has(storage, otpKeyOf(last'[1].req.email)))
                => last'[1].msg = "Invalid OTP" /\ last'[1].req.seen = <<>>)]_vars

C3_Witness ==
    /\ Answered("verify")
    /\ last[1].msg = "OTP expired"
    /\ last[1].req.start = OTPWindow + 1
    /\ last[1].req.seen[1].expires = OTPWindow

\* C4: with getOrCreate calls run one after another, every call for an email
\* returns the same client identifier and the same environment identifier,
\* and a call for an email that already has a client generates no
\* identifier and writes no client_id:, client: or environment: record.
C4_GetOrCreateIdempotent ==
    /\ [](\A k1, k2 \in issued :
            k1.email = k2.email =>
                /\ k1.client_id = k2.client_id
                /\ k1.environment_id = k2.environment_id)
    /\ [][\A w \in Workers :
            (workers[w].op = "verify" /\ ~workers[w].created
                /\ Has(storage, clientKeyOf(workers[w].email)))
            => /\ ClientPart(storage') = ClientPart(storage)
               /\ nextID' = nextID
               /\ workers'[w].op = "verify" => ~workers'[w].created]_vars

\* Two answers of /verify for one email.
C4_Witness ==
    \E k1, k2 \in issued : k1 # k2 /\ k1.email = k2.email

\* The client identifiers that have a record under client_id:<id>.
StoredIDs(s) == {k[2] : k \in {x \in DOMAIN s : x[1] = "client_id"}}

\* C5: there is exactly one client per email: no two client_id:<id> records
\* carry the same email, and no two tokens with different subjects were
\* issued for the same email.
C5_OneClientPerEmail ==
    /\ \A i, j \in StoredIDs(storage) :
          i # j => storage[idKeyOf(i)].email # storage[idKeyOf(j)].email
    /\ \A k1, k2 \in issued :
          k1.email = k2.email => k1.token.sub = k2.token.sub

\* C6: once client:<email> holds a record, the identifier stored there never
\* changes, and the record under client_id:<i> always carries identifier i
\* and the same email.
C6_IdentifierImmutable ==
    [][/\ \A e \in Emails :
            Has(storage, clientKeyOf(e)) =>
                /\ Has(storage', clientKeyOf(e))
                /\ storage'[clientKeyOf(e)].id = storage[clientKeyOf(e)].id
       /\ \A i \in StoredIDs(storage) :
            /\ Has(storage', idKeyOf(i))
            /\ storage'[idKeyOf(i)].id = i
            /\ storage'[idKeyOf(i)].email = storage[idKeyOf(i)].email]_vars

\* The four token-authenticated endpoints.
AuthOps == {"connect", "config", "postinfra", "getinfra"}

\* The answer just given was to a request that carried a bearer string.
AnsweredBearer == last # <<>> /\ last[1].op \in AuthOps /\ last[1].req.tok # <<>>

C8_SuccessNeedsClient ==
    (last # <<>> /\ last[1].op \in AuthOps /\ last[1].code = 200) =>
        /\ last[1].req.tok # <<>>
        /\ last[1].req.tok[1].wellformed
        /\ last[1].req.tok[1].key = secret
        /\ last[1].req.start < last[1].req.tok[1].exp
        /\ Has(storage, idKeyOf(last[1].req.tok[1].sub))

\* The four id-sets of a manifest, by json key.
IdSets(m) == <<m.vpn_instances, m.load_balancers, m.databases, m.storage>>

\* C9: for an existing client, when replace(c, m) has answered, the stored
\* manifest has exactly the four id-sets of m, and a get(c) that follows
\* with no request in between returns exactly those four id-sets.
C9_ReplaceThenGet ==
    /\ [](Answered("postinfra") /\ last[1].code = 200
             /\ Has(storage, idKeyOf(last[1].req.cid)) =>
            IdSets(storage[idKeyOf(last[1].req.cid)].infrastructure)
                = IdSets(MarshalInfrastructure(last[1].req.data[1])))
    /\ [][(/\ Answered("postinfra") /\ last[1].code = 200
           /\ Has(storage, idKeyOf(last[1].req.cid))
           /\ last' # <<>> /\ last'[1].op = "getinfra"
           /\ last'[1].req.cid = last[1].req.cid
           /\ last'[1].req.tok # <<>> /\ last'[1].req.tok[1].key = secret)
          => /\ last'[1].code = 200
             /\ IdSets(last'[1].out.infrastructure)
                   = IdSets(MarshalInfrastructure(last[1].req.data[1]))]_vars

\* After two replaces, a get returns the id-sets of a manifest that shares
\* no id with the other one.
C9_Witness ==
    /\ nreq = 5
    /\ Answered("getinfra")
    /\ last[1].code = 200
    /\ last[1].out.infrastructure.load_balancers = {"lb-1"}
    /\ last[1].out.infrastructure.vpn_instances = {}
    /\ last[1].out.infrastructure.last_updated > 0

\* C10: whenever no request is in flight, the record under client:<email>
\* equals the record under client_id:<id> for the id it carries.
C10_ViewsAgree ==
    ~AnyInFlight =>
        \A e \in Emails :
            Has(storage, clientKeyOf(e)) =>
                /\ Has(storage, idKeyOf(storage[clientKeyOf(e)].id))
                /\ storage[idKeyOf(storage[clientKeyOf(e)].id)] = storage[clientKeyOf(e)]

\* C11: the last_updated stored in a client's aggregate never decreases from
\* one state to the next, whatever requests interleave, and when a replace
\* has answered it is at least the time at which that replace started.
C11_LastUpdatedAdvances ==
    /\ [][\A i \in StoredIDs(storage) :
            /\ Has(storage', idKeyOf(i))
            /\ storage'[idKeyOf(i)].infrastructure.last_updated
                  >= storage[idKeyOf(i)].infrastructure.last_updated]_vars
    /\ [](Answered("postinfra") /\ last[1].code = 200
             /\ Has(storage, idKeyOf(last[1].req.cid)) =>
            storage[idKeyOf(last[1].req.cid)].infrastructure.last_updated
                >= last[1].req.start)

\* A string of exactly six decimal digits.
SixDigits(code) == Len(code) = 6 /\ \A i \in 1..Len(code) : code[i] \in 0..9

\* C12: a /register with a parsable body and a non-empty email answers 200
\* and leaves under otp:<email> the record of the code just generated: six
\* digits, expires = now + 5 minutes, attempts = 0, whatever record was there
\* before; it changes no client_id:, client: or environment: record and
\* generates no client identifier.
C12_RegisterStores ==
    /\ [](Answered("register") /\ last[1].req.email # "" =>
            LET q == last[1].req IN
            /\ last[1].code = 200
            /\ Has(storage, otpKeyOf(q.email))
            /\ storage[otpKeyOf(q.email)].otp = q.otp
            /\ SixDigits(storage[otpKeyOf(q.email)].otp)
            /\ storage[otpKeyOf(q.email)].expires = now + OTPWindow
            /\ storage[otpKeyOf(q.email)].attempts = 0)
    /\ [][(last' # <<>> /\ last'[1].op = "register")
              => ClientPart(storage') = ClientPart(storage) /\ nextID' = nextID]_vars

\* The second of two /register requests, five minutes after the first, with
\* another code: the record holds the second code and its expiry.
C12_Witness ==
    /\ nreq = 2
    /\ Answered("register")
    /\ last[1].code = 200
    /\ now = OTPWindow
    /\ \E x \in sent : x.email = last[1].req.email /\ x.otp # last[1].req.otp
    /\ storage[otpKeyOf(last[1].req.email)].expires = OTPWindow + OTPWindow

\* C13: a /register whose body does not parse or whose email is empty
\* answers 400, generates and sends no code, and leaves the store as it was.
C13_RegisterRejects ==
    /\ [](Answered("register") /\ last[1].req.email = "" =>
            /\ last[1].code = 400
            /\ last[1].req.otp = <<>>)
    /\ [][(last' # <<>> /\ last'[1].op = "register" /\ last'[1].req.email = "")
              => storage' = storage /\ sent' = sent]_vars

\* An empty email is refused while a code is pending.
C13_Witness ==
    /\ Answered("register")
    /\ last[1].code = 400
    /\ last[1].msg = "Missing email"
    /\ \E e \in Emails : Has(storage, otpKeyOf(e))

\* The code was sent to the email and is the one sent last to it.
LatestCode(email, code) ==
    \E x \in sent : x.email = email /\ x.otp = code /\ x.latest

\* The code was sent to the email and another code was sent to it since.
SupersededCode(email, code) ==
    /\ \E x \in sent : x.email = email /\ x.otp = code
    /\ ~LatestCode(email, code)

\* C14: with requests run one after another, the record under otp:<email>
\* always holds the code sent last to the email; a verify with a code that
\* a later, different code has superseded answers 400, every verify that
\* answers 200 presented the code sent last, and a verify with the code sent
\* last that finds the record inside its window answers 200.
C14_NewCodeInvalidatesPrior ==
    /\ [](\A e \in Emails :
            Has(storage, otpKeyOf(e)) => LatestCode(e, storage[otpKeyOf(e)].otp))
    /\ [](Answered("verify") /\ last[1].req.email \in Emails =>
            LET q == last[1].req IN
            /\ SupersededCode(q.email, q.otp) => last[1].code = 400
            /\ last[1].code = 200 => LatestCode(q.email, q.otp)
            /\ (LatestCode(q.email, q.otp) /\ q.seen # <<>>
                  /\ q.start <= q.seen[1].expires) => last[1].code = 200)

\* A verify with a superseded code finds the record of the later code and
\* answers 400.
C14_Witness ==
    /\ Answered("verify")
    /\ last[1].code = 400
    /\ SupersededCode(last[1].req.email, last[1].req.otp)
    /\ last[1].req.seen # <<>>
    /\ last[1].req.seen[1].otp # last[1].req.otp
    /\ last[1].req.start <= last[1].req.seen[1].expires

\* POST /connect, GET /config and GET /infrastructure.
ReadOps == {"connect", "config", "getinfra"}

\* The request carried no Authorization header, or a bearer string that is
\* malformed, signed with another key, or expired when the request arrived.
BadCredentials(req) ==
    IF req.tok = <<>> THEN TRUE
    ELSE \/ ~req.tok[1].wellformed
         \/ req.tok[1].key # secret
         \/ req.start >= req.tok[1].exp

\* C15: /connect, /config and GET /infrastructure answer 401 exactly when
\* the header is missing or the token fails validation, 404 exactly when the
\* token validates and its subject has no record under client_id:<subject>,
\* and 200 otherwise; a 401 or 404 answer leaves the store as it was.
C15_ReadStatus ==
    /\ [](last # <<>> /\ last[1].op \in ReadOps =>
            LET q == last[1].req IN
            IF BadCredentials(q) THEN last[1].code = 401
            ELSE IF ~Has(storage, idKeyOf(q.tok[1].sub)) THEN last[1].code = 404
            ELSE last[1].code = 200)
    /\ [][(last' # <<>> /\ last'[1].op \in ReadOps /\ last'[1].code \in {401, 404})
              => storage' = storage]_vars

\* A validly signed token whose subject has no record gets 404 while the
\* store holds another client.
C15_Witness ==
    /\ last # <<>>
    /\ last[1].op = "connect"
    /\ last[1].code = 404
    /\ StoredIDs(storage) # {}

\* C16: once /verify has answered 200 with client_id c, token k and
\* environment v, every /connect, /config and GET /infrastructure that
\* carries k and arrives before k's exp (issue time + 24h) answers 200 as
\* client c, and /config returns the server, port and environment id of v,
\* the server non-empty and the port non-zero.
C16_TokenKeepsWorking ==
    (last # <<>> /\ last[1].op \in ReadOps /\ last[1].req.tok # <<>>) =>
        \A k \in issued :
            (k.token = last[1].req.tok[1]
                /\ last[1].req.start < k.token.iat + TokenLifetime) =>
                /\ last[1].code = 200
                /\ last[1].req.cid = k.client_id
                /\ last[1].op = "config" =>
                     /\ last[1].out.server = k.environment.vpn_server
                     /\ last[1].out.port = k.environment.vpn_port
                     /\ last[1].out.environment_id = k.environment.id
                     /\ Len(last[1].out.server) > 0
                     /\ last[1].out.port # 0

\* C17: whenever /register answers 200 the store holds, under otp:<email>,
\* a record with the code just generated; when the Put of the record failed
\* the answer is a 5xx.
C17_PutFailureSurfaced ==
    Answered("register") =>
        /\ last[1].code = 200 =>
             /\ Has(storage, otpKeyOf(last[1].req.email))
             /\ storage[otpKeyOf(last[1].req.email)].otp = last[1].req.otp
        /\ last[1].req.err => last[1].code >= 500

\* C18: a getOrCreate whose lookup runs for an email that has a client
\* generates no client identifier, whatever the lookup returns, and no step
\* of a /verify changes the identifier stored under client:<email>.
C18_LookupErrorNotMiss ==
    /\ [][\A w \in Workers :
            (workers[w].pc = "getOrCreate_get"
                /\ Has(storage, clientKeyOf(workers[w].email)))
            => nextID' = nextID]_vars
    /\ [][\A w \in Workers :
            (workers[w].op = "verify" /\ Has(storage, clientKeyOf(workers[w].email)))
            => /\ Has(storage', clientKeyOf(workers[w].email))
               /\ storage'[clientKeyOf(workers[w].email)].id
                     = storage[clientKeyOf(workers[w].email)].id]_vars

\* What a map holds under key after the calls of log: the value of the last
\* put on the key that no delete of the key follows, else nothing.
RECURSIVE Expected(_, _)
Expected(log, key) ==
    IF log = <<>> THEN <<>>
    ELSE LET e == log[Len(log)] IN
         IF e.key = key /\ e.op = "put" THEN <<e.value>>
         ELSE IF e.key = key /\ e.op = "delete" THEN <<>>
         ELSE Expected(SubSeq(log, 1, Len(log) - 1), key)

\* C19: the in-memory store is a map: Get(k) returns the value of the most
\* recent Put(k, v) that no Delete(k) follows, and "key not found" for a key
\* never put or since deleted; a call on key k leaves every other key as it
\* was, a Get changes nothing, and a Delete of an absent key changes nothing.
C19_StoreIsMap ==
    /\ [](\A k \in StoreKeys : Get(storage, k) = Expected(oplog, k))
    /\ [](last # <<>> /\ last[1].op = "get" =>
            last[1].result = Expected(oplog, last[1].key))
    /\ [][oplog' # oplog =>
            LET call == oplog'[Len(oplog')] IN
            /\ \A k \in StoreKeys : k # call.key => Get(storage', k) = Get(storage, k)
            /\ DOMAIN storage' \subseteq DOMAIN storage \cup {call.key}
            /\ call.op = "get" => storage' = storage
            /\ (call.op = "delete" /\ ~Has(storage, call.key)) => storage' = storage]_vars

\* Put, Delete, Get on one key: the Get finds nothing.
C19_Witness ==
    /\ Len(oplog) = 3
    /\ oplog[1].op = "put"
    /\ oplog[2].op = "delete"
    /\ oplog[3].op = "get"
    /\ oplog[1].key = oplog[2].key
    /\ oplog[2].key = oplog[3].key
    /\ last[1].result = <<>>

\* C20: when main leaves its retry loop it selects the in-memory store if
\* and only if all 20 attempts failed, and keeps the durable store if an
\* attempt succeeded; from the moment it serves, the store in use never
\* changes.
C20_FallbackAtStartupOnly ==
    /\ [][(main.pc = "select" /\ main' = Serving) =>
            /\ backend' = "memory" <=> (main.ok = 0 /\ main.i = MaxAttempts)
            /\ main.ok > 0 => backend' = "redis"]_vars
    /\ [][main = Serving => (backend' = backend /\ main' = Serving)]_vars
    /\ [](main = Serving => backend \in {"redis", "memory"})

\* A request answered by the server that fell back to the in-memory store.
C20_Witness ==
    /\ main = Serving
    /\ backend = "memory"
    /\ Answered("verify")
    /\ last[1].code = 200

\* C21: the startup makes at most 20 connection attempts, of which at most
\* one succeeds; it makes no attempt once one has succeeded or the loop is
\* left; and every run eventually serves with a store in use (the durable
\* one or the in-memory one, never none).
C21_StartupTerminates ==
    /\ [](main.i + main.ok <= MaxAttempts /\ main.ok <= 1)
    /\ [][(main.pc # "connect" \/ main.ok > 0) =>
            main'.i + main'.ok <= main.i + main.ok]_vars
    /\ <>(main = Serving /\ backend \in {"redis", "memory"})

\* The twentieth attempt succeeded, after nineteen that failed.
C21_Witness ==
    /\ main.pc = "select"
    /\ main.ok = 1
    /\ main.i = MaxAttempts - 1
    /\ backend = "redis"

\* C22: for every one of the 2^24 values of the three random bytes,
\* generateOTP returns a string of exactly 6 characters, each a decimal
\* digit.
C22_OTPSixDigits ==
    (last # <<>> /\ last[1].op = "generateOTP") =>
        \A lo \in Bytes : SixDigits(last[1].result[lo])

\* Calls whose number has 8 digits before it is cut, among them the largest,
\* 16777215, which returns "167772".
C22_Witness ==
    /\ last # <<>>
    /\ last[1].op = "generateOTP"
    /\ last[1].hi = MaxByte
    /\ last[1].mid = MaxByte
    /\ last[1].result[MaxByte] = <<1, 6, 7, 7, 7, 2>>
    /\ last[1].result[0] = <<1, 6, 7, 7, 6, 9>>

\* C23: there is no lockout.  A /verify that fails on a candidate other than
\* the stored code leaves the record under otp:<email> as it was, code and
\* expiry included, and however many such failures came before, a /verify
\* that finds the stored code equal to its candidate inside the window
\* answers 200.
C23_NoLockout ==
    /\ [][(/\ last' # <<>>
            /\ last'[1].op = "verify"
            /\ last'[1].req.seen # <<>>
            /\ last'[1].req.seen[1].otp # last'[1].req.otp)
           => /\ last'[1].code = 400
              /\ Has(storage', otpKeyOf(last'[1].req.email))
              /\ storage'[otpKeyOf(last'[1].req.email)] = last'[1].req.seen[1]
              /\ storage' = storage]_vars
    /\ [](Answered("verify") /\ Redeemable(last[1].req) => last[1].code = 200)

\* A verify that succeeds after two that failed on a wrong candidate against
\* the same stored code.
C23_Witness ==
    /\ Answered("verify")
    /\ last[1].code = 200
    /\ HistoryOf(last[1].req.email).serial = last[1].req.serial
    /\ HistoryOf(last[1].req.email).failed >= 2

\* C24: every token-authenticated request that answers 200 (POST /connect,
\* GET /config, POST and GET /infrastructure) sets the client's last_seen to
\* the time of the request: when the answer is out, the last_seen stored for
\* the client is not older than the arrival of the request.
C24_LastSeenOnEachAccess ==
    (/\ last # <<>>
     /\ last[1].op \in AuthOps
     /\ last[1].code = 200
     /\ Has(storage, idKeyOf(last[1].req.cid)))
    => storage[idKeyOf(last[1].req.cid)].last_seen >= last[1].req.start

\* C25: an OPTIONS request on an API path (/register, /verify, /connect,
\* /config, /infrastructure, /health) is answered 200 with
\* Access-Control-Allow-Origin: * by handleRequest itself: it carries no
\* token, starts no handler, and leaves the store, the codes sent and the
\* tokens issued as they were, in every state.
C25_OptionsShortCircuit ==
    [][(last' # <<>> /\ last'[1].req.method = "OPTIONS")
       => /\ last'[1].req.path \in APIPaths
          /\ last'[1].code = 200
          /\ last'[1].out.allow_origin = "*"
          /\ last'[1].req.tok = <<>>
          /\ storage' = storage
          /\ workers' = workers
          /\ <<issued', sent', nextID'>> = <<issued, sent, nextID>>]_vars

\* The preflight of /infrastructure answered while a client with a pending
\* code exists.
C25_Witness ==
    /\ last # <<>>
    /\ last[1].req.method = "OPTIONS"
    /\ last[1].req.path = "infrastructure"
    /\ last[1].code = 200
    /\ StoredIDs(storage) # {}
    /\ \E e \in Emails : Has(storage, otpKeyOf(e))

\* C26: a stored code is redeemed at most once even by concurrent callers:
\* of the /verify requests that read the same stored code of an email, at
\* most one answers 200.
C26_SingleUseConcurrent ==
    [][(last' # <<>> /\ last'[1].op = "verify" /\ last'[1].code = 200)
       => ~\E k \in issued :
              /\ k.email = last'[1].req.email
              /\ k.serial = last'[1].req.serial]_vars

\* C27: a completed replace is not undone by a last-seen update.  A step of
\* a /connect request, taken while no replace is in flight, leaves the four
\* id-sets stored under client_id:<id> as they were, so what the completed
\* replaces stored is what a later get returns: updateClientLastSeen changes
\* last_seen only.
C27_TouchKeepsManifest ==
    [][\A w \in Workers :
         (/\ workers[w].op = "connect"
          /\ workers'[w] # workers[w]
          /\ ~\E v \in Workers : workers[v].op = "postinfra"
          /\ Has(storage, idKeyOf(workers[w].cid)))
         => /\ Has(storage', idKeyOf(workers[w].cid))
            /\ IdSets(storage'[idKeyOf(workers[w].cid)].infrastructure)
                  = IdSets(storage[idKeyOf(workers[w].cid)].infrastructure)]_vars

\* C28: a verify removes only the record it verified.  When a step of a
\* /verify request removes the record under otp:<email>, that record is the
\* one the request read on arrival, not one a later /register stored: a
\* code that has been stored stays redeemable until it is itself verified,
\* expires or is superseded.
C28_VerifyDeletesOwnRecord ==
    [][\A w \in Workers :
         (/\ workers[w].op = "verify"
          /\ workers'[w] # workers[w]
          /\ Has(storage, otpKeyOf(workers[w].email))
          /\ ~Has(storage', otpKeyOf(workers[w].email)))
         => /\ workers[w].serial = HistoryOf(workers[w].email).serial
            /\ workers[w].seen = <<storage[otpKeyOf(workers[w].email)]>>]_vars

\* The emails that have a record under client:<email>.
CreatedEmails == {e \in CreateEmails : Has(storage, clientKeyOf(e))}

\* C29: concurrent first-time calls of getOrCreate for pairwise distinct
\* emails do not interfere.  Each call returns an identifier that was handed
\* out (never the empty one); the identifiers and the environment
\* identifiers of different emails differ; and when a call returns, the
\* records under client:<email>, client_id:<id> and environment:<env id> all
\* exist and hold the data the call returned, whatever the other calls did.
C29_DistinctEmailsIndependent ==
    /\ \A e \in CreatedEmails, f \in CreatedEmails :
          /\ storage[clientKeyOf(e)].email = e
          /\ storage[clientKeyOf(e)].id \in 1..nextID
          /\ e # f => /\ storage[clientKeyOf(e)].id # storage[clientKeyOf(f)].id
                      /\ storage[clientKeyOf(e)].environment.id
                            # storage[clientKeyOf(f)].environment.id
    /\ Answered("getOrCreate") =>
          LET c == last[1].out IN
          /\ c.email = last[1].req.email
          /\ c.id \in 1..nextID
          /\ c.environment.client_id = c.id
          /\ Has(storage, clientKeyOf(c.email)) /\ storage[clientKeyOf(c.email)] = c
          /\ Has(storage, idKeyOf(c.id)) /\ storage[idKeyOf(c.id)] = c
          /\ Has(storage, envKeyOf(c.environment.id))
          /\ storage[envKeyOf(c.environment.id)] = c.environment

\* The call that drew the first identifier returns after a concurrent call
\* for another email has drawn the second and written all its records.
C29_Witness ==
    /\ Answered("getOrCreate")
    /\ Cardinality(CreatedEmails) = 2
    /\ last[1].out.id = 1
    /\ \E f \in CreatedEmails :
          /\ f # last[1].req.email
          /\ storage[clientKeyOf(f)].id = 2
          /\ Has(storage, envKeyOf(storage[clientKeyOf(f)].environment.id))

\* C30: the in-memory store is linearizable under concurrent workers.  Each
\* call takes effect at one step between its call and its return, and the
\* calls in the order of those steps (oplog) behave as a map: a Get returns
\* what the calls that took effect before it left under its key, never a
\* value that is being written; whenever no write is under way the map holds
\* what the calls that took effect left, so a Put that returned is seen by
\* every Get that starts afterwards until a later Put or Delete of the key
\* takes effect; and no reader is inside the map while a writer is.
C30_Linearizable ==
    /\ [][\A w \in Workers :
            (workers[w].op = "get" /\ workers[w].pc = "access"
                /\ workers'[w].pc = "unlock")
            => /\ workers'[w].seen = Expected(oplog, workers[w].key)
               /\ workers'[w].seen # <<Torn>>]_vars
    /\ [](mu.writer = 0 => \A k \in StoreKeys : Get(storage, k) = Expected(oplog, k))
    /\ [](mu.writer # 0 => mu.readers = {})
    /\ [](last # <<>> /\ last[1].op = "get" => last[1].result # <<Torn>>)

\* After a Put on a key took effect, a Get of the key waits for the lock
\* while a second Put is half way through its write of the map.
C30_Witness ==
    \E w \in Workers, v \in Workers :
        /\ workers[w].op = "get"
        /\ workers[w].pc = "lock"
        /\ workers[v].op = "put"
        /\ workers[v].pc = "write"
        /\ workers[v].key = workers[w].key
        /\ mu.writer = v
        /\ Get(storage, workers[w].key) = <<Torn>>
        /\ Len(oplog) = 1
        /\ oplog[1].op = "put"
        /\ oplog[1].key = workers[w].key

\* C31: once the expiry time of an OTP record has passed, the next /verify
\* for its email removes the record, whatever candidate it carries: when a
\* /verify that found an expired record has answered, no record is left
\* under otp:<email>.
C31_ExpiredRemovedOnVerify ==
    (/\ Answered("verify")
     /\ last[1].req.seen # <<>>
     /\ last[1].req.start > last[1].req.seen[1].expires)
    => ~Has(storage, otpKeyOf(last[1].req.email))

\* C32: OTP records have a time-to-live of 5 minutes in storage: a record
\* under otp:<email> whose expiry has passed is eventually absent, whether or
\* not a request for the email follows.
C32_OTPRecordTTL ==
    \A e \in Emails :
        (Has(storage, otpKeyOf(e)) /\ now > storage[otpKeyOf(e)].expires)
            ~> ~Has(storage, otpKeyOf(e))

\* C33: attempt counting is tracked: the attempts field of the record under
\* otp:<email> is 0 right after the code is issued and equals the number of
\* /verify requests that failed on a wrong candidate against that record
\* since.
C33_AttemptsCounted ==
    \A e \in Emails :
        Has(storage, otpKeyOf(e)) =>
            storage[otpKeyOf(e)].attempts = HistoryOf(e).failed

\* How many six-digit codes there are, and how many values the three random
\* bytes take.
NumCodes == 10 ^ 6

NumByteValues == (MaxByte + 1) * (MaxByte + 1) * (MaxByte + 1)

\* C34: codes are uniform over 000000 to 999999: every one of the 1,000,000
\* codes is produced from the same number of values of the three bytes.  That
\* number times 1,000,000 is then the number of byte values, so the byte
\* values found to produce one code, times 1,000,000, never exceed 2^24;
\* stated for the code of third byte 0 and the third bytes that share it.
C34_CodesUniform ==
    (last # <<>> /\ last[1].op = "generateOTP") =>
        Cardinality({lo \in Bytes : last[1].result[lo] = last[1].result[0]}) * NumCodes
            <= NumByteValues

\* The kinds of record the service keeps; none of them is a session.
RecordKinds == {"otp", "client", "client_id", "environment"}

\* C35: token validation is stateless.  Whether a request that carries a
\* bearer string is let through depends on the string, the signing key and
\* the time alone, the same in every store state (401 exactly when the
\* string does not validate at that time); a request turned away leaves the
\* store as it was; and issuing a token stores nothing: the step that
\* answers /verify adds no key, and no key of the store is a session record.
C35_ValidationStateless ==
    /\ [](AnsweredBearer =>
            (last[1].code = 401
                <=> validateToken(last[1].req.tok[1], last[1].req.start) = <<>>))
    /\ [][(last' # <<>> /\ last'[1].op \in AuthOps /\ last'[1].code = 401)
            => storage' = storage]_vars
    /\ [][(last' # <<>> /\ last'[1].op = "verify" /\ last'[1].code = 200)
            => DOMAIN storage' \subseteq DOMAIN storage]_vars
    /\ [](\A k \in DOMAIN storage : k[1] \in RecordKinds)

\* A token signed with the secret for an identifier the store never held
\* passes validation (the answer is 404, not 401) while the store holds a
\* client.
C35_Witness ==
    /\ AnsweredBearer
    /\ last[1].req.tok[1] = generateToken(UnknownClientID, 0)
    /\ last[1].code = 404
    /\ StoredIDs(storage) # {}

\* C36: getOrCreate for an email with no client creates one aggregate and
\* persists three views of it.  When the /verify that created the client has
\* answered, client:<email> and client_id:<id> hold the same aggregate,
\* environment:<environment id> holds the environment embedded in it, the
\* environment's client_id is the client's id, its server is derived from
\* that id, its status is active and its port 443, and the four id-sets of
\* the manifest are empty.
C36_ThreeViews ==
    (Answered("verify") /\ last[1].code = 200 /\ last[1].req.created) =>
        LET e == last[1].req.email IN
        /\ Has(storage, clientKeyOf(e))
        /\ LET c == storage[clientKeyOf(e)] IN
           /\ c = MarshalClientData(last[1].req.data[1])
           /\ c.email = e
           /\ c.id = last[1].out.client_id
           /\ Has(storage, idKeyOf(c.id))
           /\ storage[idKeyOf(c.id)] = c
           /\ Has(storage, envKeyOf(c.environment.id))
           /\ storage[envKeyOf(c.environment.id)] = c.environment
           /\ c.environment.client_id = c.id
           /\ c.environment.vpn_server = <<"vpn", c.id>>
           /\ c.environment.status = "active"
           /\ c.environment.vpn_port = DefaultPort
           /\ IdSets(c.infrastructure) = <<{}, {}, {}, {}>>

\* The first /verify of an email, made in the last second of the window of
\* its code, has created the client.
C36_Witness ==
    /\ Answered("verify")
    /\ last[1].code = 200
    /\ last[1].req.created
    /\ now = OTPWindow
    /\ nextID = 1
    /\ storage[clientKeyOf(last[1].req.email)].created = OTPWindow

\* What a replace is to leave alone in a stored aggregate: the client's id,
\* email and created time, its environment, and the manifest's created.
KeptByReplace(c) == <<c.id, c.email, c.created, c.environment, c.infrastructure.created>>

\* C37: replace(c, m) changes only the four id-sets of the manifest and its
\* last_updated: every step of a POST /infrastructure leaves the client's
\* id, email and created time, its environment and the manifest's own
\* created as they were, under client_id:<id> and under client:<email>,
\* whatever m contains.
C37_ReplaceFrame ==
    [][\A w \in Workers :
         (workers[w].op = "postinfra" /\ workers'[w] # workers[w]) =>
            \A k \in {x \in DOMAIN storage : x[1] \in {"client", "client_id"}} :
                /\ Has(storage', k)
                /\ KeptByReplace(storage'[k]) = KeptByReplace(storage[k])]_vars

WithCode(s, e, c) ==
    IF Has(s, otpKeyOf(e)) THEN [s EXCEPT ![otpKeyOf(e)].otp = c] ELSE s

\* C39: no answer to a request without a valid token discloses a stored
\* secret: the answer to a GET that carries no token, the /debug paths
\* included, is the one the same request gets from a store that differs
\* only in the pending code of an email; and GET /config and
\* GET /infrastructure without a token are answered 401 with no body.
C39_NoDisclosure ==
    /\ Answered("debug") =>
          \A e \in Emails, c \in Codes :
              DebugResponse(WithCode(storage, e, c), last[1].req.key, last[1].req.err)
                  = [code |-> last[1].code, msg |-> last[1].msg, out |-> last[1].out]
    /\ (last # <<>> /\ last[1].op \in {"config", "getinfra"} /\ last[1].req.tok = <<>>)
          => last[1].code = 401 /\ last[1].out = NoBody

\* The keys under which two stores differ.
Changed(s, t) == {k \in DOMAIN s \cup DOMAIN t : Get(s, k) # Get(t, k)}

\* C40: clients share no state.  A key a step changes belongs to the request
\* that took the step: for a token-authenticated request of client A it is
\* client_id:<A> or client:<A's email>; for a /register of email e it is
\* otp:<e>; for a /verify of e it is otp:<e>, client:<e>, a client_id:
\* record carrying e, or the environment of the client the request holds
\* for e.  Every record of a
\* client with another email is left as it was.
C40_ClientsIsolated ==
    [][\A k \in Changed(storage, storage') :
         LET r == IF last' # <<>> THEN last'[1].req
                  ELSE workers'[CHOOSE w \in Workers : workers'[w] # workers[w]]
         IN  IF r.op \in AuthOps
             THEN /\ Has(storage, idKeyOf(r.cid))
                  /\ k \in {<<"client_id", r.cid>>,
                            <<"client", storage[idKeyOf(r.cid)].email>>}
                  /\ Has(storage', k) /\ storage'[k].email = storage[idKeyOf(r.cid)].email
             ELSE IF r.op = "register"
             THEN k = <<"otp", r.email>>
             ELSE /\ r.op = "verify"
                  /\ \/ k = <<"otp", r.email>>
                     \/ k = <<"client", r.email>>
                     \/ k[1] = "client_id" /\ storage'[k].email = r.email
                     \/ /\ k[1] = "environment"
                        /\ r.data # <<>>
                        /\ r.data[1].Email = r.email
                        /\ storage'[k].client_id = r.data[1].ID]_vars

\* A /connect of one client has written its records while another client,
\* of another email, has a manifest and a pending code.
C40_Witness ==
    /\ Answered("connect")
    /\ last[1].code = 200
    /\ \E i \in StoredIDs(storage) :
          /\ i # last[1].req.cid
          /\ storage[idKeyOf(i)].email # storage[idKeyOf(last[1].req.cid)].email
          /\ storage[idKeyOf(last[1].req.cid)].last_seen > storage[idKeyOf(i)].last_seen

====
